---- MODULE Spec2Model ----
(***************************************************************************)
(* Turn pipeline of the chat orchestrator (orchestrators/chat/chat_bot.py)  *)
(* and its message history (orchestrators/chat/messages/message_history.py).*)
(*                                                                         *)
(* A turn is one call of ChatBot.astream followed by the caller iterating   *)
(* the returned llm_astream generator.  The chain handed to the caller is   *)
(* message_history's history wrapper (RunnableWithMessageHistory) with the  *)
(* two listeners of with_alisteners around it, so one turn is the sequence  *)
(*   astream -> gate -> [caller iterates] on_start listener -> history load *)
(*   -> (rag stages) -> model stream through the stop-token filter ->       *)
(*   history save (input + output messages) -> on_end listener.             *)
(* Listener exceptions are logged by the callback manager and not raised;   *)
(* exceptions of the chain itself are raised to the caller.                 *)
(***************************************************************************)
EXTENDS Integers, Sequences, FiniteSets, TLC

(* ------------------------------ bounds --------------------------------- *)
MaxTurns == 2
MaxCandidates == 1
MaxPieces == 3
MaxFragments == 2
MaxStored == 3
MaxBulk == 2
MaxDocs == 5
MaxRequests == 2
MaxConfigs == 2

Turns == 1..MaxTurns
Sessions == {"c1", "c2"}
Preprompts == {"P1", "P2"}
\* Sessions and preprompts are interchangeable: the first turn's are called c1, P1.
FirstSession == "c1"
FirstPreprompt == "P1"
UserMessages == {"Hello"}

(* ------------------------------ strings -------------------------------- *)
stop_token == <<"<", "|", "e", "o", "t", "_", "i", "d", "|", ">">>

StopLen == Len(stop_token)

RECURSIVE Concat(_)
Concat(ss) == IF ss = <<>> THEN <<>> ELSE Head(ss) \o Concat(Tail(ss))

\* stop_token in s
Contains(s, tok) ==
  \E i \in 1..(Len(s) - Len(tok) + 1) : SubSeq(s, i, i + Len(tok) - 1) = tok

\* s.replace(tok, ""): one left-to-right pass over non-overlapping occurrences
RECURSIVE Replace(_, _)
Replace(s, tok) ==
  IF Len(s) < Len(tok) THEN s
  ELSE IF SubSeq(s, 1, Len(tok)) = tok
       THEN Replace(SubSeq(s, Len(tok) + 1, Len(s)), tok)
       ELSE <<Head(s)>> \o Replace(Tail(s), tok)

\* The text a fragment is built from: plain text, the stop token, and the two
\* halves of a stop token cut in the middle.
Pieces ==
  { <<"a">>, stop_token, SubSeq(stop_token, 1, 5), SubSeq(stop_token, 6, StopLen) }

RECURSIVE PieceSeqs(_)
PieceSeqs(n) ==
  IF n = 0 THEN { <<>> }
  ELSE PieceSeqs(n - 1) \cup
       { s \o <<p>> : s \in { x \in PieceSeqs(n - 1) : Len(x) = n - 1 }, p \in Pieces }

\* The ways of cutting n consecutive pieces into MaxFragments fragments (a
\* fragment may be empty, a stop token may straddle a cut).
Groupings(n) ==
  { g \in [1..n -> 1..MaxFragments] : \A i \in 1..(n - 1) : g[i] <= g[i + 1] }

RECURSIVE Gather(_, _, _, _)
Gather(ps, g, k, i) ==
  IF i > Len(ps) THEN <<>>
  ELSE (IF g[i] = k THEN ps[i] ELSE <<>>) \o Gather(ps, g, k, i + 1)

FragmentSeqs ==
  { [k \in 1..MaxFragments |-> Gather(ps, g, k, 1)] :
      ps \in PieceSeqs(MaxPieces), g \in Groupings(MaxPieces) }

\* A chunk of the chain's stream.  The llm chain yields message chunks (key
\* "content"); the rag chain yields dicts, of which only those with the key
\* "answer" carry reply text.
Chunk(k, txt) == [key |-> k, text |-> txt]

\* The replies the generation model produces in a turn.
ReplyTexts ==
  { <<<<"a">>>>,
    << <<"a">> \o stop_token, <<"a">> >>,
    << SubSeq(stop_token, 1, 5), SubSeq(stop_token, 6, StopLen) >> }

ChainStreams(c) ==
  IF c = "rag"
    THEN { <<Chunk("context", <<>>)>> \o [i \in 1..Len(r) |-> Chunk("answer", r[i])]
             : r \in ReplyTexts }
    ELSE { [i \in 1..Len(r) |-> Chunk("content", r[i])] : r \in ReplyTexts }

(* ------------------------------- state --------------------------------- *)
VARIABLES
  history,      \* session -> messages of the history collection, in read order
  createdAt,    \* session -> the createdAt of those messages, in the same order
  appended,     \* session -> the messages handed to the store, in call order
  summaries,    \* session -> summaries persisted by add_summary
  pc,           \* turn -> position in the turn
  session,      \* turn -> configurable['session_id']
  user_prompt,  \* turn -> prompt_part.user_prompt
  input,        \* turn -> the user's message
  candidates,   \* turn -> number of vectors the gate search returned
  chain,        \* turn -> "none" | "rag" | "llm"
  loaded,       \* turn -> number of history messages loaded into the prompt
  docs,         \* turn -> number of documents the rag retriever returned
  chunks,       \* turn -> chunks the chain has not produced yet
  emitted,      \* turn -> chunks pulled from the chain so far
  delivered,    \* turn -> fragments forwarded to the caller so far
  modelCalls,   \* turn -> calls made to the generation model
  hookFailed,   \* turn -> listeners whose exception was logged
  raised,       \* turn -> exception raised to the caller
  exitRuns,     \* turn -> times _aexit_chat_chain was invoked
  stages,       \* turn -> the stages of the chain that have run, in order
  summaryCalls, \* turn -> calls made to the summarization model
  registry,     \* the template kinds the prompt registry holds
  index,        \* the documents of the vector store
  found,        \* the result of the last search on the vector store
  bot,          \* turn -> the parts built on the turn's ChatBot
  route,        \* request -> position of create_conversation and its events
  repo,         \* the document BaseMongoRepository.sync works on, its last call
  closed,       \* turn -> the caller stopped consuming the stream
  searchDown,   \* turn -> the gate's search found the backend unreachable
  overlapped    \* session -> some turn started while another was running on it

vars ==
  << history, createdAt, appended, summaries, pc, session, user_prompt, input, candidates, chain,
     loaded, docs, chunks, emitted, delivered, modelCalls, hookFailed, raised,
     exitRuns, stages, summaryCalls, closed, searchDown, overlapped, registry,
     index, found, bot, route, repo >>

turnVars ==
  << pc, session, user_prompt, input, candidates, chain, loaded, docs, chunks,
     emitted, delivered, modelCalls, hookFailed, raised, exitRuns, stages,
     summaryCalls, closed, searchDown >>

restVars == << registry, index, found, bot, route, repo >>

Terminal == {"Complete", "Failed", "Abandoned"}

Running(t) == pc[t] \notin ({"Idle"} \cup Terminal)

(* --------------------------- history store ----------------------------- *)
SystemMessage(p, t) == [type |-> "system", content |-> p, turn |-> t]
HumanMessage(m, t) == [type |-> "human", content |-> m, turn |-> t]
AIMessage(txt, t) == [type |-> "ai", content |-> txt, turn |-> t]

\* (variant) the new messages are put in front of the stored ones
add_messages_front(h, msgs) == msgs \o h

\* MongoMessageHistory.add_messages: the messages go to the end of the collection
add_messages(h, msgs) == h \o msgs

\* MongoMessageHistory.system / MessagePart.add_system_message
add_system_message(h, p, t) == add_messages(h, <<SystemMessage(p, t)>>)

\* (variant) the filter names a type no stored message has
find_one_system_wrong_type(h, p) ==
  \E i \in 1..Len(h) : h[i].type = "System" /\ h[i].content = p

\* collection.find_one({'type': 'system', 'content': user_prompt,
\*                      'conversation_id': session_id}) is not None
find_one_system(h, p) ==
  \E i \in 1..Len(h) : h[i].type = "system" /\ h[i].content = p

\* (variant) sort=[("createdAt", ASCENDING)]
find_one_earliest_ai(h, ca) ==
  IF \E i \in 1..Len(h) : h[i].type = "ai"
    THEN CHOOSE i \in 1..Len(h) :
           /\ h[i].type = "ai"
           /\ \A j \in 1..Len(h) : h[j].type = "ai" => ca[i] <= ca[j]
    ELSE 0

\* collection.find_one({'type': {'$in': ['ai', 'AIMessageChunk']},
\*                      'conversation_id': session_id},
\*                     sort=[("createdAt", DESCENDING)])
\* on the messages h with the createdAt ca: index of the match, 0 for None
find_one_latest_ai(h, ca) ==
  IF \E i \in 1..Len(h) : h[i].type = "ai"
    THEN CHOOSE i \in 1..Len(h) :
           /\ h[i].type = "ai"
           /\ \A j \in 1..Len(h) : h[j].type = "ai" => ca[j] <= ca[i]
    ELSE 0

\* (variant) the trace stores what it logs
trace_history_chain_stores(h) ==
  h \o <<[type |-> "trace", content |-> "Message History", turn |-> 0]>>

\* _trace_history_chain: the last 20 messages are read and logged; the history
\* after the trace is the history before it
trace_history_chain(h) == h

\* (variant) the history is taken for empty whatever it holds
has_no_messages_always(h) == TRUE

\* MongoMessageHistory.has_no_messages: not self.messages
has_no_messages(h) == h = <<>>

CountType(h, ty) == Cardinality({ i \in 1..Len(h) : h[i].type = ty })

\* MongoMessageHistory.messages: the session's messages as the store lists them
messages(h) == h

\* MongoMessageHistory.human / MessagePart.add_human_message
add_human_message(h, m, t) == add_messages(h, <<HumanMessage(m, t)>>)

\* MongoMessageHistory.ai / MessagePart.add_ai_message
add_ai_message(h, m, t) == add_messages(h, <<AIMessage(m, t)>>)

\* (variant) the messages of a bulk are stored last first
add_bulk_messages_reversed(h, msgs) ==
  add_messages(h, [i \in 1..Len(msgs) |-> msgs[Len(msgs) + 1 - i]])

\* MongoMessageHistory.bulk_add / MessagePart.add_bulk_messages
add_bulk_messages(h, msgs) == add_messages(h, msgs)

\* The documents of the history collection, which all the sessions share.
CollectionSize ==
  LET RECURSIVE Sum(_)
      Sum(S) == IF S = {} THEN 0
                ELSE LET x == CHOOSE y \in S : TRUE
                     IN Len(history[x]) + Sum(S \ {x})
  IN Sum(Sessions)

\* createdAt of n documents stored now (default_factory = datetime.now): later
\* than that of every document stored before.
Stamps(n) == [i \in 1..n |-> CollectionSize + i]

\* The store takes msgs for session s: the documents get their createdAt.
Inserted(s, msgs) ==
  /\ createdAt' = [createdAt EXCEPT ![s] = add_messages(@, Stamps(Len(msgs)))]
  /\ appended' = [appended EXCEPT ![s] = @ \o msgs]

\* chat_message_history.add_summary: the summary is kept with the session's
\* summaries, apart from the turn messages.
add_summary(sums, s) == Append(sums, s)

(* ----------------------------- the gate -------------------------------- *)
\* (variant) return count >= 0
aavailable_vectors_ge(count) == count >= 0

\* VectorPart.aavailable_vectors: count = len(vectors); return count > 0
aavailable_vectors(count) == count > 0

\* (variant) the rag chain whatever the gate said
SelectChain_always_rag(rag_chain) == "rag"

\* ChatBot.astream, last line: rag_astream if rag_chain else chat_astream
SelectChain(rag_chain) == IF rag_chain THEN "rag" ELSE "llm"

(* ------------------------- the streaming filter ------------------------ *)
\* s.replace(tok, "", 1): the first occurrence only
RECURSIVE ReplaceFirst(_, _)
ReplaceFirst(s, tok) ==
  IF Len(s) < Len(tok) THEN s
  ELSE IF SubSeq(s, 1, Len(tok)) = tok
       THEN SubSeq(s, Len(tok) + 1, Len(s))
       ELSE <<Head(s)>> \o ReplaceFirst(Tail(s), tok)

\* (variant) only the first stop token of a fragment is removed
StripStopFirst(s) == IF Contains(s, stop_token) THEN ReplaceFirst(s, stop_token) ELSE s

\* if stop_token in s: s = s.replace(stop_token, "")
StripStop(s) == IF Contains(s, stop_token) THEN Replace(s, stop_token) ELSE s

\* chat_astream.llm_astream: every chunk is forwarded, stripped
chat_llm_astream(c) == << StripStop(c.text) >>

\* (variant) the rag chain's filter forwards a fragment for every chunk
rag_llm_astream_every_chunk(c) == << StripStop(c.text) >>

\* (variant) the rag chain's filter has another stop token, "<|eot"
rag_llm_astream_other_token(c) ==
  IF c.key = "answer"
    THEN << IF Contains(c.text, SubSeq(stop_token, 1, 5))
              THEN Replace(c.text, SubSeq(stop_token, 1, 5)) ELSE c.text >>
    ELSE << >>

\* rag_astream.llm_astream: only chunks with the key 'answer' are forwarded
rag_llm_astream(c) == IF c.key = "answer" THEN << StripStop(c.text) >> ELSE << >>

llm_astream(kind, c) == IF kind = "rag" THEN rag_llm_astream(c) ELSE chat_llm_astream(c)

(* ------------------------------ the chains ------------------------------ *)
\* The keys the pipeline looks up in prompt_part.registry.
TemplateKinds ==
  { "contextualized_template", "qa_template", "chat_history_template",
    "summarization_template" }

\* registry[kind]: the registry holds the kind, or the lookup raises
lookup(reg, kind) == kind \in reg

\* (variant) the chain is built without looking its templates up
chain_templates_none(c) == {}

\* The templates create_rag_chain / create_llm_chain look up when astream
\* builds the chain.
chain_templates(c) ==
  IF c = "rag" THEN { "contextualized_template", "qa_template" }
  ELSE { "chat_history_template" }

\* (variant) every turn writes to the same session
history_session_shared(t) == FirstSession

\* MessagePart: the message history of a turn is that of its session_id
history_session(t) == session[t]

\* (variant) the rag chain answers without its retriever
next_stage_no_retriever(c, p) ==
  IF p = "Load" THEN (IF c = "rag" THEN "Contextualize" ELSE "Generate")
  ELSE "Generate"

\* (variant) the llm chain is built like the rag chain
next_stage_rag_only(c, p) ==
  IF p = "Load" THEN "Contextualize"
  ELSE IF p = "Contextualize" THEN "Retrieve"
  ELSE "Generate"

\* The stage that follows p in chain c.  create_rag_chain: the history aware
\* retriever (contextualized_template, then the retriever) feeds the documents
\* chain (qa_template); create_llm_chain: chat_history_template | llm.
next_stage(c, p) ==
  IF p = "Load" THEN (IF c = "rag" THEN "Contextualize" ELSE "Generate")
  ELSE IF p = "Contextualize" THEN "Retrieve"
  ELSE "Generate"

\* The prompt of the chain's last stage.
answer_stage(c) == IF c = "rag" THEN "qa" ELSE "chat"

\* (variant) the end of the run is not awaited
stream_exhausted_early(cs) == TRUE

\* (variant) the loop does not see the end of the stream
stream_exhausted_never(cs) == FALSE

\* async for s in chain.astream(...): the loop is over
stream_exhausted(cs) == cs = <<>>

\* (variant) the on_end listener is called again
on_end_outcome_again(ok) == "Exit"

\* (variant) an exception in the on_end listener fails the turn
on_end_outcome_raise(ok) == IF ok THEN "Complete" ELSE "Failed"

\* Where the turn is after the on_end listener, whether it returned (ok) or
\* raised: the listener's exception is logged, the stream has ended.
on_end_outcome(ok) == "Complete"

(* --------------------------- the vector store --------------------------- *)
\* VectorStoreRetreival.k
retrieval_k == 4

Tenants == { "u1", "u2" }

\* A document of the index: its two metadata tags (SCHEMA) and its place in the
\* order of similarity to the query (1 is the nearest).
Document(u, c, r) == [uuid |-> u, conversation_id |-> c, rank |-> r]

Documents == { Document(u, c, r) : u \in Tenants, c \in Sessions, r \in 1..MaxDocs }

NoSearch == [kind |-> "none", uuid |-> "none", conversation_id |-> "none", docs |-> {}]

\* RediStore.runnable, vector_filter
vector_filter(u, c) == [uuid |-> u, conversation_id |-> c]

Matches(d, flt) == d.uuid = flt.uuid /\ d.conversation_id = flt.conversation_id

\* The n documents of ds nearest to the query.
Nearest(ds, n) == { d \in ds : Cardinality({ e \in ds : e.rank < d.rank }) < n }

\* (variant) the filter is applied to the k nearest documents of the whole index
runnable_filter_after(idx, u, c) ==
  { d \in Nearest(idx, retrieval_k) : Matches(d, vector_filter(u, c)) }

\* RediStore.runnable: as_retriever(search_type="similarity", k=options.k,
\* filter=vector_filter), the k nearest of the documents that pass the filter
runnable(idx, u, c) ==
  Nearest({ d \in idx : Matches(d, vector_filter(u, c)) }, retrieval_k)

\* RediStore.similarity_search(query, filter)
similarity_search(idx, flt) == Nearest({ d \in idx : Matches(d, flt) }, retrieval_k)

\* vector_store.asimilarity_search(context) of the store built for (u, c)
asimilarity_search(idx, u, c) == similarity_search(idx, vector_filter(u, c))

(* ------------------------------ the builder ---------------------------- *)
\* ChatBot.__init__: no part is attached; nothing was raised, no turn was run.
NoParts ==
  [message_part |-> "unset", vector_part |-> "unset", raised |-> "none",
   ran |-> FALSE, call |-> [op |-> "none", keys |-> {}, arg |-> "none"]]

\* The values a caller may give as session_id: a session, '' or None.
SessionIds == Sessions \cup {"", "None"}

\* The configurable dict given to build_message_part: its keys and the value
\* under 'session_id' (None when the dict has no such key).
Configurables ==
  { [keys |-> {"session_id"}, session_id |-> v] : v \in SessionIds }
    \cup { [keys |-> {}, session_id |-> "None"] }

\* The store names of the factory table, and the names a caller may give.
V_FACTORIES == { "redis" }
StoreNames == { "redis", "chroma" }

\* not configurable['session_id']
Falsy(v) == v \in {"", "None"}

\* MessagePart.__init__ up to the construction of the message history:
\* configurable['session_id'] raises KeyError on a dict without the key, a
\* falsy value raises ValueError.
MessagePart(configurable) ==
  IF "session_id" \notin configurable.keys THEN "KeyError"
  ELSE IF Falsy(configurable.session_id) THEN "ValueError"
  ELSE "none"

\* VectorPart.__init__ up to the construction of the vector store.
VectorPart(store) == IF store \notin V_FACTORIES THEN "ValueError" ELSE "none"

(* ------------------------------ the routes ----------------------------- *)
Requests == 1..MaxRequests

\* A create_conversation request that has not been served yet; log holds the
\* calls the route has made, in order.
NoRequest ==
  [pc |-> "received", uuid |-> "none", upload_file |-> FALSE,
   conversation_id |-> "None", response |-> "none", log |-> <<>>]

(* ---------------------------- the repository --------------------------- *)
\* The collection holds no document for the options; sync was not called.
NoDocument == [exists |-> FALSE, has |-> FALSE, attribute |-> <<>>]

NoSync == [document |-> NoDocument, source |-> <<>>, returned |-> <<>>,
           target |-> <<>>, synced |-> FALSE]

(* ------------------------------ the turn ------------------------------- *)
\* No turn has started, the stores are empty.
Constructed ==
  /\ history = [s \in Sessions |-> <<>>]
  /\ createdAt = [s \in Sessions |-> <<>>]
  /\ appended = [s \in Sessions |-> <<>>]
  /\ stages = [t \in Turns |-> <<>>]
  /\ summaryCalls = [t \in Turns |-> 0]
  /\ index = {}
  /\ found = NoSearch
  /\ bot = [t \in Turns |-> NoParts]
  /\ route = [r \in Requests |-> NoRequest]
  /\ summaries = [s \in Sessions |-> <<>>]
  /\ pc = [t \in Turns |-> "Idle"]
  /\ session = [t \in Turns |-> "none"]
  /\ user_prompt = [t \in Turns |-> "none"]
  /\ input = [t \in Turns |-> "none"]
  /\ candidates = [t \in Turns |-> 0]
  /\ chain = [t \in Turns |-> "none"]
  /\ loaded = [t \in Turns |-> 0]
  /\ docs = [t \in Turns |-> 0]
  /\ chunks = [t \in Turns |-> <<>>]
  /\ emitted = [t \in Turns |-> <<>>]
  /\ delivered = [t \in Turns |-> <<>>]
  /\ modelCalls = [t \in Turns |-> 0]
  /\ hookFailed = [t \in Turns |-> {}]
  /\ raised = [t \in Turns |-> "none"]
  /\ exitRuns = [t \in Turns |-> 0]
  /\ closed = [t \in Turns |-> FALSE]
  /\ searchDown = [t \in Turns |-> FALSE]
  /\ overlapped = [s \in Sessions |-> FALSE]

\* The registry holds every template the pipeline looks up.
Init ==
  /\ Constructed
  /\ registry = TemplateKinds
  /\ repo = NoSync

\* An exception leaves the coroutine or the generator: the caller sees it.
Raise(t, e) ==
  /\ pc' = [pc EXCEPT ![t] = "Failed"]
  /\ raised' = [raised EXCEPT ![t] = e]

\* An exception inside a listener: the callback manager logs it and goes on.
LogHook(t, h) == hookFailed' = [hookFailed EXCEPT ![t] = @ \cup {h}]

\* ChatBot.astream up to the gate: inspect, _trace_history_chain (a read of the
\* history, which raises when the store is down), endpoint_object.
astream(t, s, p, m) ==
  /\ pc[t] = "Idle"
  /\ IF t = 1 THEN s = FirstSession /\ p = FirstPreprompt ELSE pc[t - 1] # "Idle"
  /\ session' = [session EXCEPT ![t] = s]
  /\ user_prompt' = [user_prompt EXCEPT ![t] = p]
  /\ input' = [input EXCEPT ![t] = m]
  /\ overlapped' = [overlapped EXCEPT ![s] =
                      @ \/ \E u \in Turns : u # t /\ Running(u) /\ session[u] = s]
  /\ \E ok \in BOOLEAN :
       IF ok THEN /\ history' = [history EXCEPT ![s] = trace_history_chain(@)]
                  /\ pc' = [pc EXCEPT ![t] = "Deciding"]
                  /\ UNCHANGED raised
             ELSE /\ Raise(t, "HistoryUnavailable")
                  /\ UNCHANGED history
  /\ UNCHANGED << createdAt, appended, summaries, candidates, chain, loaded,
                  docs, chunks, emitted, delivered, modelCalls, hookFailed, exitRuns,
                  stages, closed, searchDown >>
  /\ UNCHANGED << summaryCalls, restVars >>

\* ChatBot.astream, the gate and the choice of the chain: the search returns
\* its candidates, or raises when the backend is not reachable.
gate(t) ==
  /\ pc[t] = "Deciding"
  /\ stages' = [stages EXCEPT ![t] = Append(@, "gate")]
  /\ \/ \E n \in 0..MaxCandidates :
          /\ candidates' = [candidates EXCEPT ![t] = n]
          /\ chain' = [chain EXCEPT ![t] = SelectChain(aavailable_vectors(n))]
          /\ IF \A k \in chain_templates(chain'[t]) : lookup(registry, k)
               THEN /\ pc' = [pc EXCEPT ![t] =
                                IF chain'[t] = "rag" THEN "Grounded" ELSE "Direct"]
                    /\ UNCHANGED raised
               ELSE Raise(t, "UnknownTemplateKind")
          /\ UNCHANGED searchDown
     \/ /\ searchDown' = [searchDown EXCEPT ![t] = TRUE]
        /\ Raise(t, "BackendUnavailable")
        /\ UNCHANGED << candidates, chain >>
  /\ UNCHANGED << history, createdAt, appended, summaries, session, user_prompt,
                  input, loaded, docs, chunks, emitted, delivered, modelCalls,
                  hookFailed, exitRuns, closed, overlapped >>
  /\ UNCHANGED << summaryCalls, restVars >>

\* The caller starts iterating llm_astream(): the on_start listener runs first.
\* _aenter_chat_chain, the find_one.
aenter_chat_chain_find(t) ==
  /\ pc[t] \in {"Grounded", "Direct"}
  /\ \E ok \in BOOLEAN :
       IF ok
         THEN /\ pc' = [pc EXCEPT ![t] =
                          IF find_one_system(history[session[t]], user_prompt[t])
                            THEN "Load" ELSE "EnterAdd"]
              /\ UNCHANGED hookFailed
         ELSE /\ pc' = [pc EXCEPT ![t] = "Load"]
              /\ LogHook(t, "on_start")
  /\ UNCHANGED << history, createdAt, appended, summaries, session, user_prompt,
                  input, candidates, chain, loaded, docs, chunks, emitted, delivered,
                  modelCalls, raised, exitRuns, stages, closed, searchDown, overlapped >>
  /\ UNCHANGED << summaryCalls, restVars >>

\* _aenter_chat_chain, the awaited add_system_message after a find_one of None.
aenter_chat_chain_add(t) ==
  /\ pc[t] = "EnterAdd"
  /\ \E ok \in BOOLEAN :
       IF ok
         THEN /\ history' = [history EXCEPT ![history_session(t)] =
                               add_system_message(@, user_prompt[t], t)]
              /\ Inserted(history_session(t), <<SystemMessage(user_prompt[t], t)>>)
              /\ UNCHANGED hookFailed
         ELSE /\ LogHook(t, "on_start")
              /\ UNCHANGED << history, createdAt, appended >>
  /\ pc' = [pc EXCEPT ![t] = "Load"]
  /\ UNCHANGED << summaries, session, user_prompt, input, candidates, chain,
                  loaded, docs, chunks, emitted, delivered, modelCalls, raised,
                  exitRuns, stages, closed, searchDown, overlapped >>
  /\ UNCHANGED << summaryCalls, restVars >>

\* The history wrapper reads the session's messages into the prompt; this read is
\* part of the chain, so its failure is raised.
load_history(t) ==
  /\ pc[t] = "Load"
  /\ \E ok \in BOOLEAN :
       IF ok
         THEN /\ loaded' = [loaded EXCEPT ![t] = Len(history[session[t]])]
              /\ pc' = [pc EXCEPT ![t] = next_stage(chain[t], "Load")]
              /\ UNCHANGED raised
         ELSE /\ Raise(t, "HistoryUnavailable")
              /\ UNCHANGED loaded
  /\ UNCHANGED << history, createdAt, appended, summaries, session, user_prompt,
                  input, candidates, chain, docs, chunks, emitted, delivered,
                  modelCalls, hookFailed, exitRuns, stages, closed, searchDown,
                  overlapped >>
  /\ UNCHANGED << summaryCalls, restVars >>

\* create_rag_chain, history_aware_retriever: with a chat history the model
\* rewrites the input with the contextualized_template; without one the input
\* goes to the retriever as it is.
contextualize(t) ==
  /\ pc[t] = "Contextualize"
  /\ IF loaded[t] > 0
       THEN /\ modelCalls' = [modelCalls EXCEPT ![t] = @ + 1]
            /\ stages' = [stages EXCEPT ![t] = Append(@, "contextualize")]
            /\ \E ok \in BOOLEAN :
                 IF ok THEN /\ pc' = [pc EXCEPT ![t] = next_stage(chain[t], pc[t])]
                            /\ UNCHANGED raised
                       ELSE Raise(t, "GenerationFailure")
       ELSE /\ pc' = [pc EXCEPT ![t] = next_stage(chain[t], pc[t])]
            /\ UNCHANGED << modelCalls, raised, stages >>
  /\ UNCHANGED << history, createdAt, appended, summaries, session, user_prompt,
                  input, candidates, chain, loaded, docs, chunks, emitted, delivered,
                  hookFailed, exitRuns, closed, searchDown, overlapped >>
  /\ UNCHANGED << summaryCalls, restVars >>

\* create_rag_chain, the retriever of the vector store.
retrieve(t) ==
  /\ pc[t] = "Retrieve"
  /\ stages' = [stages EXCEPT ![t] = Append(@, "retrieve")]
  /\ \/ \E n \in 0..MaxCandidates :
          /\ docs' = [docs EXCEPT ![t] = n]
          /\ pc' = [pc EXCEPT ![t] = next_stage(chain[t], pc[t])]
          /\ UNCHANGED raised
     \/ /\ Raise(t, "BackendUnavailable")
        /\ UNCHANGED docs
  /\ UNCHANGED << history, createdAt, appended, summaries, session, user_prompt,
                  input, candidates, chain, loaded, chunks, emitted, delivered,
                  modelCalls, hookFailed, exitRuns, closed, searchDown, overlapped >>
  /\ UNCHANGED << summaryCalls, restVars >>

\* The prompt goes to the generation model (qa_template with the documents, or
\* chat_history_template), which starts a stream of chunks.
generate(t) ==
  /\ pc[t] = "Generate"
  /\ modelCalls' = [modelCalls EXCEPT ![t] = @ + 1]
  /\ \E out \in ChainStreams(chain[t]) : chunks' = [chunks EXCEPT ![t] = out]
  /\ stages' = [stages EXCEPT ![t] = Append(@, answer_stage(chain[t]))]
  /\ pc' = [pc EXCEPT ![t] = "Streaming"]
  /\ UNCHANGED << history, createdAt, appended, summaries, session, user_prompt,
                  input, candidates, chain, loaded, docs, emitted, delivered,
                  hookFailed, raised, exitRuns, closed, searchDown, overlapped >>
  /\ UNCHANGED << summaryCalls, restVars >>

\* The reply text carried by a sequence of chunks, chunk by chunk.
ReplyOf(cs) ==
  LET RECURSIVE Texts(_)
      Texts(x) ==
        IF x = <<>> THEN <<>>
        ELSE (IF Head(x).key \in {"answer", "content"} THEN <<Head(x).text>> ELSE <<>>)
             \o Texts(Tail(x))
  IN Texts(cs)

\* (variant) the new fragment is put before those already sent
yield_fragments_front(sent, out) == out \o sent

\* yield s_content: the fragment goes to the caller after those already sent
yield_fragments(sent, out) == sent \o out

\* The caller asks for the next fragment while the chain still has chunks: the
\* chunk is pulled and passed through llm_astream, or the model fails and the
\* exception leaves the generator.
pull(t) ==
  /\ pc[t] = "Streaming"
  /\ chunks[t] # <<>>
  /\ \/ /\ emitted' = [emitted EXCEPT ![t] = Append(@, Head(chunks[t]))]
        /\ chunks' = [chunks EXCEPT ![t] = Tail(@)]
        /\ delivered' = [delivered EXCEPT ![t] =
                           yield_fragments(@, llm_astream(chain[t], Head(chunks[t])))]
        /\ UNCHANGED << pc, raised >>
     \/ /\ Raise(t, "GenerationFailure")
        /\ UNCHANGED << emitted, chunks, delivered >>
  /\ UNCHANGED << history, createdAt, appended, summaries, session, user_prompt,
                  input, candidates, chain, loaded, docs, modelCalls, hookFailed,
                  exitRuns, stages, closed, searchDown, overlapped >>
  /\ UNCHANGED << summaryCalls, restVars >>

\* The chain's stream ends: the history wrapper's own on_end listener stores the
\* input message and the output message of the run.
exit_history(t) ==
  /\ pc[t] = "Streaming"
  /\ stream_exhausted(chunks[t])
  /\ \E ok \in BOOLEAN :
       IF ok
         THEN LET msgs == << HumanMessage(input[t], t),
                             AIMessage(Concat(ReplyOf(emitted[t])), t) >>
              IN /\ history' = [history EXCEPT ![history_session(t)] =
                                    add_messages(@, msgs)]
                 /\ Inserted(history_session(t), msgs)
                 /\ UNCHANGED hookFailed
         ELSE /\ LogHook(t, "history_save")
              /\ UNCHANGED << history, createdAt, appended >>
  /\ pc' = [pc EXCEPT ![t] = "Exit"]
  /\ UNCHANGED << summaries, session, user_prompt, input, candidates, chain,
                  loaded, docs, chunks, emitted, delivered, modelCalls, raised,
                  exitRuns, stages, closed, searchDown, overlapped >>
  /\ UNCHANGED << summaryCalls, restVars >>

\* _aexit_chat_chain, the on_end listener: the latest ai message is summarized by
\* summary_object and the summary stored with add_summary.  The find_one, the
\* lookup of the summarization template, the model call or add_summary may
\* raise; the exception is logged.
aexit_chat_chain(t) ==
  /\ pc[t] = "Exit"
  /\ exitRuns' = [exitRuns EXCEPT ![t] = @ + 1]
  /\ LET h == history[session[t]]
         i == find_one_latest_ai(h, createdAt[session[t]])
         known == lookup(registry, "summarization_template")
     IN \E ok \in BOOLEAN :
          IF ok /\ (i = 0 \/ known)
            THEN /\ summaries' = [summaries EXCEPT ![history_session(t)] =
                       IF i # 0 THEN add_summary(@, [of |-> h[i].turn, by |-> t]) ELSE @]
                 /\ summaryCalls' = [summaryCalls EXCEPT ![t] = IF i # 0 THEN @ + 1 ELSE @]
                 /\ pc' = [pc EXCEPT ![t] = on_end_outcome(TRUE)]
                 /\ UNCHANGED hookFailed
            ELSE /\ LogHook(t, "on_end")
                 /\ \E called \in (IF i # 0 /\ known THEN BOOLEAN ELSE {FALSE}) :
                      summaryCalls' = [summaryCalls EXCEPT ![t] =
                                         IF called THEN @ + 1 ELSE @]
                 /\ pc' = [pc EXCEPT ![t] = on_end_outcome(FALSE)]
                 /\ UNCHANGED summaries
  /\ UNCHANGED << history, createdAt, appended, session, user_prompt, input,
                  candidates, chain, loaded, docs, chunks, emitted, delivered,
                  modelCalls, raised, stages, closed, searchDown, overlapped >>
  /\ UNCHANGED restVars

\* (variant) closing the generator still runs the end of the chain
close_generator_finally(p) == "Exit"

\* Where a turn is once the caller has closed the generator: GeneratorExit is
\* thrown at the yield, the run ends in error, no on_end listener runs.
close_generator(p) == "Abandoned"

\* The caller stops consuming the stream.
abandon(t) ==
  /\ pc[t] = "Streaming"
  /\ closed' = [closed EXCEPT ![t] = TRUE]
  /\ pc' = [pc EXCEPT ![t] = close_generator(pc[t])]
  /\ UNCHANGED << history, createdAt, appended, summaries, session, user_prompt,
                  input, candidates, chain, loaded, docs, chunks, emitted, delivered,
                  modelCalls, hookFailed, raised, exitRuns, stages, searchDown,
                  overlapped >>
  /\ UNCHANGED << summaryCalls, restVars >>

Next ==
  \E t \in Turns :
    \/ \E s \in Sessions, p \in Preprompts, m \in UserMessages : astream(t, s, p, m)
    \/ gate(t)
    \/ aenter_chat_chain_find(t)
    \/ aenter_chat_chain_add(t)
    \/ load_history(t)
    \/ contextualize(t)
    \/ retrieve(t)
    \/ generate(t)
    \/ pull(t)
    \/ exit_history(t)
    \/ aexit_chat_chain(t)
    \/ abandon(t)

Spec == Init /\ [][Next]_vars

(* -------------------- the streaming filter on its own ------------------- *)
\* The chunk streams given to the filter: every cut of every piece
\* sequence; the rag chain's stream starts with its context chunk.
FilterStreams(c) ==
  IF c = "rag"
    THEN { <<Chunk("context", <<>>)>> \o [i \in 1..Len(r) |-> Chunk("answer", r[i])]
             : r \in FragmentSeqs }
    ELSE { [i \in 1..Len(r) |-> Chunk("content", r[i])] : r \in FragmentSeqs }

\* A turn on session c1 that has reached Streaming, with any stream.
InitFilter ==
  /\ history = [s \in Sessions |->
                  IF s = "c1" THEN <<SystemMessage("P1", 1)>> ELSE <<>>]
  /\ createdAt = [s \in Sessions |-> IF s = "c1" THEN <<1>> ELSE <<>>]
  /\ appended = history
  /\ summaries = [s \in Sessions |-> <<>>]
  /\ pc = [t \in Turns |-> IF t = 1 THEN "Streaming" ELSE "Idle"]
  /\ session = [t \in Turns |-> IF t = 1 THEN "c1" ELSE "none"]
  /\ user_prompt = [t \in Turns |-> IF t = 1 THEN "P1" ELSE "none"]
  /\ input = [t \in Turns |-> IF t = 1 THEN "Hello" ELSE "none"]
  /\ \E c \in {"rag", "llm"} :
       /\ chain = [t \in Turns |-> IF t = 1 THEN c ELSE "none"]
       /\ candidates = [t \in Turns |-> IF t = 1 /\ c = "rag" THEN 1 ELSE 0]
       /\ docs = [t \in Turns |-> IF t = 1 /\ c = "rag" THEN 1 ELSE 0]
       /\ modelCalls = [t \in Turns |-> IF t # 1 THEN 0 ELSE IF c = "rag" THEN 2 ELSE 1]
       /\ stages = [t \in Turns |->
                      IF t # 1 THEN <<>>
                      ELSE IF c = "rag" THEN <<"gate", "contextualize", "retrieve", "qa">>
                      ELSE <<"gate", "chat">>]
       /\ \E out \in FilterStreams(c) :
            chunks = [t \in Turns |-> IF t = 1 THEN out ELSE <<>>]
  /\ loaded = [t \in Turns |-> IF t = 1 THEN 1 ELSE 0]
  /\ summaryCalls = [t \in Turns |-> 0]
  /\ registry = TemplateKinds
  /\ repo = NoSync
  /\ index = {}
  /\ found = NoSearch
  /\ bot = [t \in Turns |-> NoParts]
  /\ route = [r \in Requests |-> NoRequest]
  /\ emitted = [t \in Turns |-> <<>>]
  /\ delivered = [t \in Turns |-> <<>>]
  /\ hookFailed = [t \in Turns |-> {}]
  /\ raised = [t \in Turns |-> "none"]
  /\ exitRuns = [t \in Turns |-> 0]
  /\ closed = [t \in Turns |-> FALSE]
  /\ searchDown = [t \in Turns |-> FALSE]
  /\ overlapped = [s \in Sessions |-> FALSE]

NextFilter == \E t \in Turns : pull(t)

SpecFilter == InitFilter /\ [][NextFilter]_vars

(* --------------------- the history store on its own --------------------- *)
\* The messages handed to the store by a caller that is not a turn (turn 0).
StoreReplies == { <<"a">> }

StoreMessages ==
  { SystemMessage(FirstPreprompt, 0) }
    \cup { HumanMessage(m, 0) : m \in UserMessages }
    \cup { AIMessage(r, 0) : r \in StoreReplies }

RECURSIVE BulkSeqs(_)
BulkSeqs(n) ==
  IF n = 0 THEN {}
  ELSE BulkSeqs(n - 1) \cup [1..n -> StoreMessages]

\* No turn has started; a session may already hold a system message.
InitStore ==
  /\ \E held \in [Sessions -> {<<>>, <<SystemMessage(FirstPreprompt, 0)>>}] :
       /\ history = held
       /\ createdAt = [s \in Sessions |->
                         IF held[s] = <<>> THEN <<>>
                         ELSE IF s = FirstSession THEN <<1>>
                         ELSE <<Len(held[FirstSession]) + 1>>]
  /\ appended = [s \in Sessions |-> <<>>]
  /\ summaries = [s \in Sessions |-> <<>>]
  /\ pc = [t \in Turns |-> "Idle"]
  /\ session = [t \in Turns |-> "none"]
  /\ user_prompt = [t \in Turns |-> "none"]
  /\ input = [t \in Turns |-> "none"]
  /\ candidates = [t \in Turns |-> 0]
  /\ chain = [t \in Turns |-> "none"]
  /\ loaded = [t \in Turns |-> 0]
  /\ docs = [t \in Turns |-> 0]
  /\ chunks = [t \in Turns |-> <<>>]
  /\ emitted = [t \in Turns |-> <<>>]
  /\ delivered = [t \in Turns |-> <<>>]
  /\ modelCalls = [t \in Turns |-> 0]
  /\ hookFailed = [t \in Turns |-> {}]
  /\ raised = [t \in Turns |-> "none"]
  /\ exitRuns = [t \in Turns |-> 0]
  /\ stages = [t \in Turns |-> <<>>]
  /\ summaryCalls = [t \in Turns |-> 0]
  /\ registry = TemplateKinds
  /\ repo = NoSync
  /\ index = {}
  /\ found = NoSearch
  /\ bot = [t \in Turns |-> NoParts]
  /\ route = [r \in Requests |-> NoRequest]
  /\ closed = [t \in Turns |-> FALSE]
  /\ searchDown = [t \in Turns |-> FALSE]
  /\ overlapped = [s \in Sessions |-> FALSE]

\* MongoMessageHistory.system
system(s, p) ==
  /\ Len(history[s]) < MaxStored
  /\ history' = [history EXCEPT ![s] = add_system_message(@, p, 0)]
  /\ Inserted(s, <<SystemMessage(p, 0)>>)
  /\ UNCHANGED << summaries, turnVars, overlapped, restVars >>

\* MongoMessageHistory.human
human(s, m) ==
  /\ Len(history[s]) < MaxStored
  /\ history' = [history EXCEPT ![s] = add_human_message(@, m, 0)]
  /\ Inserted(s, <<HumanMessage(m, 0)>>)
  /\ UNCHANGED << summaries, turnVars, overlapped, restVars >>

\* MongoMessageHistory.ai
ai(s, m) ==
  /\ Len(history[s]) < MaxStored
  /\ history' = [history EXCEPT ![s] = add_ai_message(@, m, 0)]
  /\ Inserted(s, <<AIMessage(m, 0)>>)
  /\ UNCHANGED << summaries, turnVars, overlapped, restVars >>

\* MongoMessageHistory.bulk_add
bulk_add(s, msgs) ==
  /\ Len(history[s]) + Len(msgs) <= MaxStored
  /\ history' = [history EXCEPT ![s] = add_bulk_messages(@, msgs)]
  /\ Inserted(s, msgs)
  /\ UNCHANGED << summaries, turnVars, overlapped, restVars >>

\* The messages of a create_message request carry this mark instead of a turn.
RouteRequest == MaxTurns + 1

\* routes/messages.py, create_message: the system prompt when the session's
\* history has no messages, then the request's message, then the ai message,
\* when add_ai_message stores one.
create_message(s, p, m) ==
  LET seed == IF has_no_messages(history[s])
                THEN <<SystemMessage(p, RouteRequest)>> ELSE <<>>
  IN \E reply \in {<<>>} \cup { <<AIMessage(r, RouteRequest)>> : r \in StoreReplies } :
       LET msgs == seed \o <<HumanMessage(m, RouteRequest)>> \o reply
       IN /\ Len(history[s]) + Len(msgs) <= MaxStored
          /\ history' = [history EXCEPT ![s] = add_messages(@, msgs)]
          /\ Inserted(s, msgs)
          /\ UNCHANGED << summaries, turnVars, overlapped, restVars >>

NextStore ==
  \E s \in Sessions :
    \/ \E m \in UserMessages : create_message(s, FirstPreprompt, m)
    \/ system(s, FirstPreprompt)
    \/ \E m \in UserMessages : human(s, m)
    \/ \E r \in StoreReplies : ai(s, r)
    \/ \E msgs \in BulkSeqs(MaxBulk) : bulk_add(s, msgs)

SpecStore == InitStore /\ [][NextStore]_vars

(* ---------------------- the vector store on its own --------------------- *)
\* RediStore.add: a document is ingested with its metadata.
add(d) ==
  /\ \A e \in index : e.rank # d.rank
  /\ index' = index \cup {d}
  /\ found' = NoSearch
  /\ UNCHANGED << history, createdAt, appended, summaries, turnVars, overlapped,
                  registry, bot, route, repo >>

\* VectorPart.aavailable_vectors, the search of the gate for the store of (u, c).
gate_search(u, c) ==
  /\ found' = [kind |-> "gate", uuid |-> u, conversation_id |-> c,
               docs |-> asimilarity_search(index, u, c)]
  /\ UNCHANGED << history, createdAt, appended, summaries, turnVars, overlapped,
                  registry, index, bot, route, repo >>

\* The retriever of create_rag_chain is invoked for the store of (u, c).
retriever_invoke(u, c) ==
  /\ found' = [kind |-> "retriever", uuid |-> u, conversation_id |-> c,
               docs |-> runnable(index, u, c)]
  /\ UNCHANGED << history, createdAt, appended, summaries, turnVars, overlapped,
                  registry, index, bot, route, repo >>

NextDocs ==
  \/ \E d \in Documents : add(d)
  \/ \E u \in Tenants, c \in Sessions : gate_search(u, c)
  \/ \E u \in Tenants, c \in Sessions : retriever_invoke(u, c)

SpecDocs == Init /\ [][NextDocs]_vars

(* ------------------------------ properties ----------------------------- *)
TurnsOn(s) == { t \in Turns : pc[t] # "Idle" /\ session[t] = s }

SystemIndexes(h) == { i \in 1..Len(h) : h[i].type = "system" }

\* C1: a turn that ran alone on a session with an empty history, was consumed to
\* the end and had no listener failure leaves exactly one system message in the
\* session, its preprompt, and that message is the first of the history (so it
\* precedes every human and assistant message).
C1_OneSystemMessageFirst ==
  \A t \in Turns :
    (pc[t] = "Complete" /\ hookFailed[t] = {} /\ TurnsOn(session[t]) = {t}) =>
      LET h == history[session[t]]
      IN /\ SystemIndexes(h) = {1}
         /\ h[1] = SystemMessage(user_prompt[t], t)
         /\ \A i \in 2..Len(h) : h[i].type \in {"human", "ai"}

C1_Witness ==
  \E t \in Turns :
    /\ pc[t] = "Complete" /\ hookFailed[t] = {} /\ TurnsOn(session[t]) = {t}
    /\ Len(history[session[t]]) = 3

\* C2: on a session whose turns ran one after the other, no preprompt is stored
\* twice as a system message: a later turn with the same preprompt, or a retry
\* after a turn that failed once its system message was stored, adds none.
C2_SeedingIdempotent ==
  \A s \in Sessions :
    ~overlapped[s] =>
      \A p \in Preprompts :
        Cardinality({ i \in SystemIndexes(history[s]) : history[s][i].content = p }) <= 1

C2_Witness ==
  /\ pc[1] = "Failed" /\ raised[1] = "GenerationFailure"
  /\ pc[2] = "Complete" /\ hookFailed[2] = {}
  /\ session[1] = session[2] /\ user_prompt[1] = user_prompt[2]
  /\ ~overlapped[session[1]]
  /\ history[session[1]][1] = SystemMessage(user_prompt[1], 1)
  /\ Cardinality(SystemIndexes(history[session[1]])) = 1

\* C3: a session that holds an assistant message holds exactly one system
\* message, whatever the preprompts of its turns were.  Stated here for the
\* sessions whose turns ran one after the other and logged no listener failure,
\* which the claim covers among others.
C3_ExactlyOneSystem ==
  \A s \in Sessions :
    (~overlapped[s] /\ \A t \in TurnsOn(s) : hookFailed[t] = {}) =>
      (CountType(history[s], "ai") >= 1 => CountType(history[s], "system") = 1)

\* C4: once the model has been called in a turn, the turn's human message is in
\* the session history, and after a failed generation the history ends with it.
C4_HumanBeforeModel ==
  \A t \in Turns :
    /\ modelCalls[t] > 0 =>
         \E i \in 1..Len(history[session[t]]) :
           history[session[t]][i] = HumanMessage(input[t], t)
    /\ (pc[t] = "Failed" /\ raised[t] = "GenerationFailure") =>
         /\ history[session[t]] # <<>>
         /\ history[session[t]][Len(history[session[t]])] = HumanMessage(input[t], t)

\* C5: a turn whose gate search returned no candidate never builds or runs the
\* rag chain: its chain is the llm chain and it passes through none of the
\* grounded stages.
C5_NoCandidatesNeverGrounded ==
  \A t \in Turns :
    (pc[t] \notin {"Idle", "Deciding"} /\ ~searchDown[t] /\ candidates[t] = 0) =>
      /\ chain[t] \in {"none", "llm"}
      /\ pc[t] \notin {"Grounded", "Contextualize", "Retrieve"}
      /\ \A i \in 1..Len(emitted[t]) : emitted[t][i].key = "content"

C5_Witness ==
  \E t \in Turns :
    /\ pc[t] = "Complete" /\ candidates[t] = 0 /\ chain[t] = "llm"
    /\ delivered[t] # <<>>

\* C6: a turn whose gate search found the backend unreachable does not fail: no
\* exception reaches the caller and the chain is the llm chain.
C6_GateFailsOpen ==
  \A t \in Turns :
    searchDown[t] => (pc[t] # "Failed" /\ raised[t] = "none" /\ chain[t] = "llm")

\* C7: a turn in which the history store failed in the on-enter step or on the
\* append of the human message is aborted with an error, has delivered no
\* fragment and has made no model call.
C7_HistoryFailureAborts ==
  \A t \in Turns :
    (hookFailed[t] \cap {"on_start", "history_save"} # {}) =>
      /\ pc[t] = "Failed" /\ raised[t] = "HistoryUnavailable"
      /\ delivered[t] = <<>>
      /\ modelCalls[t] = 0

\* An occurrence of the stop token in the concatenation of the fragments lies
\* across the boundary between two fragments.
Straddles(frs) ==
  LET c == Concat(frs)
      ends == { Len(Concat(SubSeq(frs, 1, k))) : k \in 1..(Len(frs) - 1) }
  IN \E i \in 1..(Len(c) - StopLen + 1) :
       /\ SubSeq(c, i, i + StopLen - 1) = stop_token
       /\ \E b \in ends : i <= b /\ b < i + StopLen - 1

NonEmpty(frs) == SelectSeq(frs, LAMBDA f : f # <<>>)

StreamEnded(t) == pc[t] = "Streaming" /\ chunks[t] = <<>>

\* C8 as stated: at the end of every stream the forwarded fragments, joined,
\* are the model's fragments, joined, with the stop tokens removed.
C8_ConcatEqualsStripped ==
  \A t \in Turns :
    StreamEnded(t) =>
      Concat(delivered[t]) = Replace(Concat(ReplyOf(emitted[t])), stop_token)

\* C8 amended: every forwarded fragment is its own model fragment with the stop
\* tokens removed (one pass, as str.replace does), in the same order; and when
\* no stop token straddles a fragment boundary the forwarded fragments, joined,
\* are the model's fragments, joined, with the stop tokens removed.
C8_ConcatEqualsStrippedNoStraddle ==
  \A t \in Turns :
    StreamEnded(t) =>
      LET a == ReplyOf(emitted[t])
      IN /\ delivered[t] = [i \in 1..Len(a) |-> Replace(a[i], stop_token)]
         /\ NonEmpty(delivered[t]) =
              NonEmpty([i \in 1..Len(a) |-> Replace(a[i], stop_token)])
         /\ ~Straddles(a) =>
              Concat(delivered[t]) = Replace(Concat(a), stop_token)

C8_Witness ==
  \E t \in Turns :
    /\ StreamEnded(t)
    /\ ~Straddles(ReplyOf(emitted[t]))
    /\ \E i \in 1..Len(emitted[t]) :
         Contains(emitted[t][i].text, stop_token)
    /\ Concat(delivered[t]) # <<>>

\* C9: at every point of a stream the forwarded fragments are, one for one and
\* in the order of emission, the reply fragments pulled from the model so far,
\* each computed from its own fragment alone.
C9_PrefixInOrder ==
  \A t \in Turns :
    LET a == ReplyOf(emitted[t])
    IN /\ Len(delivered[t]) = Len(a)
       /\ \A i \in 1..Len(a) : delivered[t][i] = Replace(a[i], stop_token)

C9_Witness ==
  \E t \in Turns :
    /\ pc[t] = "Streaming"
    /\ Len(delivered[t]) = 2
    /\ delivered[t][1] # delivered[t][2]
    /\ delivered[t][1] # emitted[t][Len(emitted[t]) - 1].text

\* C10: once the caller has stopped consuming a stream, no further chunk is
\* pulled, nothing more is forwarded, no model call is made and the on-exit
\* listener never runs for that turn.
C10_AbandonStopsPipeline ==
  [][\A t \in Turns :
       closed[t] =>
         /\ emitted'[t] = emitted[t]
         /\ delivered'[t] = delivered[t]
         /\ modelCalls'[t] = modelCalls[t]
         /\ exitRuns'[t] = 0
         /\ pc'[t] = "Abandoned"]_vars

C10_Witness ==
  \E t \in Turns :
    /\ closed[t] /\ pc[t] = "Abandoned"
    /\ Len(delivered[t]) = 1
    /\ chunks[t] # <<>>
    /\ exitRuns[t] = 0

IsPrefix(a, b) == Len(a) <= Len(b) /\ SubSeq(b, 1, Len(a)) = a

\* The fragments llm_astream forwards for the chunks cs of chain c.
Forwarded(c, cs) ==
  LET r == ReplyOf(cs) IN [i \in 1..Len(r) |-> StripStop(r[i])]

\* C11: the on-exit listener _aexit_chat_chain has run in a turn only if the
\* chain's stream was consumed to its end: no chunk is left to produce, every
\* fragment has been forwarded, no exception was raised and the turn is
\* Complete; in a turn that ended in Failed it has never run.
C11_ExitOnlyAfterStreamEnd ==
  \A t \in Turns :
    /\ exitRuns[t] > 0 =>
         /\ chunks[t] = <<>>
         /\ emitted[t] # <<>>
         /\ delivered[t] = Forwarded(chain[t], emitted[t])
         /\ raised[t] = "none"
         /\ pc[t] = "Complete"
    /\ pc[t] = "Failed" => exitRuns[t] = 0

C11_Witness ==
  \E t \in Turns :
    /\ exitRuns[t] = 1 /\ pc[t] = "Complete"
    /\ Len(delivered[t]) = 2
    /\ \E u \in Turns : pc[u] = "Failed" /\ delivered[u] # <<>> /\ exitRuns[u] = 0

SummariesBy(t) ==
  Cardinality({ <<s, i>> \in Sessions \X (1..(2 * MaxTurns)) :
                  i <= Len(summaries[s]) /\ summaries[s][i].by = t })

\* C12: the on-exit listener runs at most once in a turn and stores at most one
\* summary for it; a step that stores a summary adds it after the summaries
\* already kept and leaves every session's turn messages, and their createdAt,
\* as they were.
C12_SummaryOncePerTurn ==
  [][/\ \A t \in Turns : exitRuns'[t] <= 1 /\ SummariesBy(t)' <= 1
     /\ \A s \in Sessions :
          summaries'[s] # summaries[s] =>
            /\ history' = history
            /\ createdAt' = createdAt
            /\ Len(summaries'[s]) = Len(summaries[s]) + 1
            /\ IsPrefix(summaries[s], summaries'[s])]_vars

C12_Witness ==
  \E s \in Sessions :
    /\ Len(summaries[s]) = 2
    /\ Len(history[s]) = 5
    /\ \A t \in Turns : pc[t] = "Complete" /\ exitRuns[t] = 1 /\ session[t] = s

\* C13: when the on-exit listener fails (the summarization call or add_summary
\* raises), the turn is Complete all the same: no exception reaches the caller,
\* the fragments forwarded are all those of the stream, and the turn's human and
\* ai messages, once stored, are still in the history.
C13_ExitFailureKeepsTurn ==
  \A t \in Turns :
    "on_end" \in hookFailed[t] =>
      /\ pc[t] = "Complete"
      /\ raised[t] = "none"
      /\ chunks[t] = <<>>
      /\ delivered[t] = Forwarded(chain[t], emitted[t])
      /\ "history_save" \notin hookFailed[t] =>
           LET h == history[session[t]]
           IN \E i \in 1..(Len(h) - 1) :
                /\ h[i] = HumanMessage(input[t], t)
                /\ h[i + 1] = AIMessage(Concat(ReplyOf(emitted[t])), t)

C13_Witness ==
  \E t \in Turns :
    /\ hookFailed[t] = {"on_end"}
    /\ pc[t] = "Complete"
    /\ Len(delivered[t]) = 2
    /\ Len(history[session[t]]) = 3
    /\ summaries[session[t]] = <<>>

\* C14 as stated: an exception reaches the caller of a turn only before any
\* fragment was forwarded to it.
C14_NoExceptionMidStream ==
  \A t \in Turns : raised[t] # "none" => delivered[t] = <<>>

NonDecreasing(q) == \A i \in 1..(Len(q) - 1) : q[i] <= q[i + 1]

\* C15: every step of the pipeline leaves each session's history as it was or
\* longer at its end (the history before the step is a prefix of the history
\* after it), and the messages are listed by non-decreasing createdAt.
C15_AppendOnly ==
  [][\A s \in Sessions :
       /\ IsPrefix(history[s], history'[s])
       /\ Len(createdAt'[s]) = Len(history'[s])
       /\ NonDecreasing(createdAt'[s])]_vars

C15_Witness ==
  /\ Len(history["c1"]) = 3 /\ createdAt["c1"] = <<1, 3, 4>>
  /\ Len(history["c2"]) = 3 /\ createdAt["c2"] = <<2, 5, 6>>

\* C16: whatever a session held, after N messages were handed to the store for
\* it, by system, human, ai or bulk_add, the last N messages that messages
\* returns are those N, in the order they were handed over.
C16_RoundTrip ==
  \A s \in Sessions :
    LET h == messages(history[s])
        n == Len(appended[s])
    IN /\ Len(h) >= n
       /\ SubSeq(h, Len(h) - n + 1, Len(h)) = appended[s]

C16_Witness ==
  \E s \in Sessions :
    /\ Len(history[s]) = 3
    /\ Len(appended[s]) = 2
    /\ appended[s][1].type = "human" /\ appended[s][2].type = "ai"
    /\ createdAt[s][3] = createdAt[s][2] + 1

\* C17: a turn that ran alone on a session with an empty history, found zero
\* candidates at the gate, was consumed to the end and had no listener failure
\* took the llm chain: the only stages are the gate and the direct-chat prompt,
\* no document was retrieved, and the session's history is exactly
\* [system(preprompt), human(message), ai(reply)].
C17_FirstDirectTurnHistory ==
  \A t \in Turns :
    (/\ pc[t] = "Complete" /\ hookFailed[t] = {} /\ TurnsOn(session[t]) = {t}
     /\ candidates[t] = 0) =>
      /\ chain[t] = "llm"
      /\ stages[t] = <<"gate", "chat">>
      /\ docs[t] = 0
      /\ \A i \in 1..Len(emitted[t]) : emitted[t][i].key = "content"
      /\ history[session[t]] =
           << SystemMessage(user_prompt[t], t),
              HumanMessage(input[t], t),
              AIMessage(Concat(ReplyOf(emitted[t])), t) >>

C17_Witness ==
  \E t \in Turns :
    /\ pc[t] = "Complete" /\ hookFailed[t] = {} /\ TurnsOn(session[t]) = {t}
    /\ candidates[t] = 0 /\ chain[t] = "llm"
    /\ Len(history[session[t]]) = 3
    /\ history[session[t]][3].content = <<"a">>

\* The stages of a turn of the rag chain that loaded n history messages.
GroundedStages(n) ==
  <<"gate">> \o (IF n > 0 THEN <<"contextualize">> ELSE <<>>) \o <<"retrieve", "qa">>

\* C18: in a turn of the rag chain the stages run in the order contextualize
\* (whenever a history was loaded), retrieve, qa; once the model streams, all
\* of them have run and the retriever has returned; and unless the on-enter
\* listener failed there is a history, so the message is reformulated before
\* the retriever is called.
C18_GroundedStageOrder ==
  \A t \in Turns :
    chain[t] = "rag" =>
      /\ IsPrefix(stages[t], GroundedStages(loaded[t]))
      /\ (chunks[t] # <<>> \/ emitted[t] # <<>>) =>
           /\ stages[t] = GroundedStages(loaded[t])
           /\ modelCalls[t] = Len(stages[t]) - 2
      /\ pc[t] = "Retrieve" => modelCalls[t] = Len(stages[t]) - 1
      /\ (Len(stages[t]) >= 2 /\ "on_start" \notin hookFailed[t]) =>
           stages[t][2] = "contextualize"

C18_Witness ==
  \E t \in Turns :
    /\ chain[t] = "rag" /\ pc[t] = "Complete"
    /\ loaded[t] = 3 /\ docs[t] = 1
    /\ stages[t] = <<"gate", "contextualize", "retrieve", "qa">>

\* C19: in a turn of the llm chain the retriever is never called and the
\* contextualizing call is never made: after the gate the only stage is the
\* direct-chat prompt on the model, with the loaded history, one model call at
\* most, no document and no context chunk in the stream.
C19_DirectNoRetrieval ==
  \A t \in Turns :
    chain[t] = "llm" =>
      /\ IsPrefix(stages[t], <<"gate", "chat">>)
      /\ pc[t] \notin {"Contextualize", "Retrieve"}
      /\ docs[t] = 0
      /\ modelCalls[t] = Len(stages[t]) - 1
      /\ \A i \in 1..Len(emitted[t]) : emitted[t][i].key = "content"

C19_Witness ==
  \E t \in Turns :
    /\ chain[t] = "llm" /\ pc[t] = "Complete"
    /\ loaded[t] = 3
    /\ stages[t] = <<"gate", "chat">>
    /\ modelCalls[t] = 1

GateRuns(t) == Cardinality({ i \in 1..Len(stages[t]) : stages[t][i] = "gate" })

\* C20 as stated: a turn that has evaluated the gate has evaluated it once and
\* is in exactly one of the two chains, the rag chain if the search returned
\* more than zero candidates and the llm chain otherwise.
C20_GateDecidesOnce ==
  \A t \in Turns :
    GateRuns(t) > 0 =>
      /\ GateRuns(t) = 1
      /\ chain[t] \in {"rag", "llm"}
      /\ chain[t] = "rag" <=> candidates[t] > 0
      /\ chain[t] = "rag" => "chat" \notin { stages[t][i] : i \in 1..Len(stages[t]) }
      /\ chain[t] = "llm" => "qa" \notin { stages[t][i] : i \in 1..Len(stages[t]) }

\* The documents of the index ingested for the scope of the last search.
OwnDocuments ==
  { d \in index : d.uuid = found.uuid /\ d.conversation_id = found.conversation_id }

Stepped(t) == pc'[t] # pc[t] \/ emitted'[t] # emitted[t]

AiIndexes(h) == { i \in 1..Len(h) : h[i].type = "ai" }

PromptTurns == {1}

InitPrompts ==
  /\ Constructed
  /\ registry \in SUBSET TemplateKinds
  /\ repo = NoSync

NextPrompts ==
  \E t \in PromptTurns :
    \/ \E s \in Sessions, p \in Preprompts, m \in UserMessages : astream(t, s, p, m)
    \/ gate(t)
    \/ aenter_chat_chain_find(t)
    \/ aenter_chat_chain_add(t)
    \/ load_history(t)
    \/ contextualize(t)
    \/ retrieve(t)
    \/ generate(t)
    \/ pull(t)
    \/ exit_history(t)
    \/ aexit_chat_chain(t)
    \/ abandon(t)

SpecPrompts == InitPrompts /\ [][NextPrompts]_vars

\* The templates each chain is built from (create_rag_chain, create_llm_chain).
TemplatesKnown(c) ==
  /\ c = "rag" => {"contextualized_template", "qa_template"} \subseteq registry
  /\ c = "llm" => "chat_history_template" \in registry

TurnStep(t) ==
  \/ gate(t)
  \/ aenter_chat_chain_find(t)
  \/ aenter_chat_chain_add(t)
  \/ load_history(t)
  \/ contextualize(t)
  \/ retrieve(t)
  \/ generate(t)
  \/ pull(t)
  \/ exit_history(t)
  \/ aexit_chat_chain(t)

NextLive ==
  \E t \in Turns :
    \/ \E s \in Sessions, p \in Preprompts, m \in UserMessages : astream(t, s, p, m)
    \/ gate(t)
    \/ aenter_chat_chain_find(t)
    \/ aenter_chat_chain_add(t)
    \/ load_history(t)
    \/ contextualize(t)
    \/ retrieve(t)
    \/ generate(t)
    \/ pull(t)
    \/ exit_history(t)
    \/ aexit_chat_chain(t)

\* The event loop runs every coroutine that can go on, and the caller asks for
\* the next fragment as long as the generator has not ended.
SpecLive == Init /\ [][NextLive]_vars /\ \A t \in Turns : WF_vars(TurnStep(t))

\* The runs of the chain's answering stage in a turn.
AnswerRuns(t) ==
  Cardinality({ n \in 1..Len(stages[t]) : stages[t][n] \in {"qa", "chat"} })

\* How far a turn is from its end: its position, then the chunks its stream
\* still holds.
Rank(t) ==
  LET base == CASE pc[t] = "Idle" -> 10
                [] pc[t] = "Deciding" -> 9
                [] pc[t] \in {"Grounded", "Direct"} -> 8
                [] pc[t] = "EnterAdd" -> 7
                [] pc[t] = "Load" -> 6
                [] pc[t] = "Contextualize" -> 5
                [] pc[t] = "Retrieve" -> 4
                [] pc[t] = "Generate" -> 3
                [] pc[t] = "Streaming" -> 2
                [] pc[t] = "Exit" -> 1
                [] OTHER -> 0
  IN base * (MaxFragments + 2) + Len(chunks[t])

\* C25: with a model whose stream is finite and a caller that keeps consuming,
\* every started turn ends Complete or Failed: a turn that is neither can take
\* a step, every step brings it closer to its end, and it never ends otherwise.
\* The chain's answering stage runs at most once in a turn, and the chunks
\* pulled together with those still to come never exceed the one finite stream
\* that run produced.
C25_StartedTurnsEnd ==
  /\ [](\A t \in Turns :
          /\ AnswerRuns(t) <= 1
          /\ Len(emitted[t]) + Len(chunks[t]) <= MaxFragments + 1
          /\ Len(delivered[t]) <= Len(emitted[t])
          /\ pc[t] \notin {"Idle", "Complete", "Failed"} => ENABLED TurnStep(t)
          /\ pc[t] # "Abandoned")
  /\ [][\A t \in Turns : Stepped(t) => Rank(t)' < Rank(t)]_vars

\* Both turns have run to Complete, each after streaming more than one fragment
\* from a single run of its chain.
C25_Witness ==
  \A t \in Turns :
    /\ pc[t] = "Complete"
    /\ AnswerRuns(t) = 1
    /\ Len(delivered[t]) >= 2

(* ----------------------- the create_message route ----------------------- *)
\* What a step added to the end of a session's history.
Added(s) == SubSeq(history'[s], Len(history[s]) + 1, Len(history'[s]))

C27_SystemMessageAtMostOnce ==
  \A s \in Sessions :
    \A i \in SystemIndexes(history[s]), j \in SystemIndexes(history[s]) :
      history[s][i].content = history[s][j].content => i = j

(* ------------------------- the two stream filters ----------------------- *)
\* The fragments a step forwarded to the caller of turn t.
Sent(t) == SubSeq(delivered'[t], Len(delivered[t]) + 1, Len(delivered'[t]))

\* C28: what rag_astream's filter forwards for an 'answer' chunk is what
\* chat_astream's filter forwards for a chunk with the same text as content, and
\* the other way round: the two filters are the same function of the text.
C28_FiltersAgreeOnText ==
  [][\A t \in Turns :
       emitted'[t] # emitted[t] =>
         LET c == Head(chunks[t])
         IN /\ (chain[t] = "rag" /\ c.key = "answer") =>
                 Sent(t) = chat_llm_astream(Chunk("content", c.text))
            /\ chain[t] = "llm" =>
                 Sent(t) = rag_llm_astream(Chunk("answer", c.text))]_vars

\* The rag filter has forwarded a fragment built from a text with a stop token
\* and the text that is the token's first half.
C28_Witness ==
  \E t \in Turns :
    /\ chain[t] = "rag"
    /\ \E n \in 1..Len(emitted[t]) :
         /\ emitted[t][n].key = "answer"
         /\ emitted[t][n].text = stop_token \o SubSeq(stop_token, 1, 5) \o <<"a">>
         /\ delivered[t][n - 1] = SubSeq(stop_token, 1, 5) \o <<"a">>

(* --------------------- which reply the hook summarizes ------------------ *)
\* C29: a summary persisted by the on-exit hook of a turn is the summary of the
\* reply generated in that same turn, never of the reply of another turn.
C29_SummaryOfOwnReply ==
  \A s \in Sessions :
    \A n \in 1..Len(summaries[s]) : summaries[s][n].of = summaries[s][n].by

(* --------------------- stop tokens in what is forwarded ----------------- *)
\* C30: no fragment forwarded to the caller by either llm_astream has the stop
\* token as a substring, whatever the text of the model's fragment.
C30_NoStopTokenForwarded ==
  \A t \in Turns :
    \A n \in 1..Len(delivered[t]) : ~Contains(delivered[t][n], stop_token)

(* ---------------------- one fragment for one chunk ---------------------- *)
\* The chunks of a sequence that carry the key k.
WithKey(cs, k) == { n \in 1..Len(cs) : cs[n].key = k }

\* C31: each pull of the grounded stream forwards no fragment for a chunk
\* without the key 'answer' and exactly one, possibly empty, for a chunk with
\* it; each pull of the direct stream forwards exactly one, possibly empty.  So
\* the fragments forwarded are as many as the answer chunks, or the chunks,
\* pulled.
C31_OneFragmentPerChunk ==
  [][\A t \in Turns :
       emitted'[t] # emitted[t] =>
         LET c == Head(chunks[t])
         IN /\ IsPrefix(delivered[t], delivered'[t])
            /\ (chain[t] = "rag" /\ c.key # "answer") => Len(Sent(t)) = 0
            /\ (chain[t] = "rag" /\ c.key = "answer") => Len(Sent(t)) = 1
            /\ chain[t] = "llm" => Len(Sent(t)) = 1
            /\ chain[t] = "rag" =>
                 Len(delivered'[t]) = Cardinality(WithKey(emitted'[t], "answer"))
            /\ chain[t] = "llm" => Len(delivered'[t]) = Len(emitted'[t])]_vars

\* The grounded stream has pulled its context chunk and two answer chunks, one
\* of them with an empty text, and forwarded two fragments, one of them empty.
C31_Witness ==
  \E t \in Turns :
    /\ chain[t] = "rag"
    /\ Len(emitted[t]) = 3
    /\ emitted[t][1].key = "context"
    /\ emitted[t][2].text = <<>>
    /\ emitted[t][3].text # <<>>
    /\ Len(delivered[t]) = 2
    /\ delivered[t][1] = <<>>

(* --------------------- astream without consumption ---------------------- *)
\* What turn t has left in the stores: its messages and its summaries.
Traces(t) ==
  UNION { { <<s, "message", n>> : n \in { m \in 1..Len(history[s]) : history[s][m].turn = t } }
          \cup { <<s, "summary", n>> : n \in { m \in 1..Len(summaries[s]) : summaries[s][m].by = t } }
          : s \in Sessions }

\* C33: the call of astream (the history trace, the gate and the building of
\* the chain) changes neither the history nor the summaries and calls no model,
\* and a turn whose stream was returned and not yet iterated has made no model
\* call, delivered no fragment, run no listener and left nothing in the stores.
C33_AstreamAloneHasNoEffect ==
  [][\A t \in Turns :
       /\ (Stepped(t) /\ pc[t] \in {"Idle", "Deciding"}) =>
            /\ history' = history
            /\ createdAt' = createdAt
            /\ summaries' = summaries
            /\ modelCalls' = modelCalls
            /\ summaryCalls' = summaryCalls
            /\ delivered' = delivered
       /\ pc'[t] \in {"Deciding", "Grounded", "Direct"} =>
            /\ modelCalls'[t] = 0
            /\ summaryCalls'[t] = 0
            /\ exitRuns'[t] = 0
            /\ hookFailed'[t] = {}
            /\ delivered'[t] = <<>>
            /\ Traces(t)' = {}]_vars

\* astream has returned the stream of the rag chain to the second turn of a
\* session, which holds the three messages of the first turn and no other.
C33_Witness ==
  /\ pc[1] = "Complete"
  /\ pc[2] = "Grounded"
  /\ session[2] = session[1]
  /\ Len(history[session[2]]) = 3
  /\ modelCalls[2] = 0

(* --------------------------- building the bot --------------------------- *)
\* The frame of the steps that build a bot or start it.
BuildFrame ==
  UNCHANGED << history, createdAt, appended, summaries, turnVars, overlapped,
               registry, index, found, route, repo >>

\* ChatBotBuilder.build_message_part: MessagePart.__init__ checks the session
\* id, builds the message history (which may fail) and attaches itself last.
build_message_part(t, configurable) ==
  /\ ~bot[t].ran
  /\ \E ok \in BOOLEAN :
       LET e == MessagePart(configurable)
           called == [bot[t] EXCEPT !.call = [op |-> "build_message_part",
                                              keys |-> configurable.keys,
                                              arg |-> configurable.session_id]]
       IN bot' = [bot EXCEPT ![t] =
                    IF e # "none" THEN [called EXCEPT !.raised = e]
                    ELSE IF ~ok THEN [called EXCEPT !.raised = "ConnectionFailure"]
                    ELSE [called EXCEPT !.raised = "none",
                                        !.message_part = configurable.session_id]]
  /\ BuildFrame

\* ChatBotBuilder.build_vector_part: VectorPart.__init__ checks the store name,
\* builds the embeddings and the store (which may fail) and attaches itself last.
build_vector_part(t, store) ==
  /\ ~bot[t].ran
  /\ \E ok \in BOOLEAN :
       LET e == VectorPart(store)
           called == [bot[t] EXCEPT !.call = [op |-> "build_vector_part",
                                              keys |-> {}, arg |-> store]]
       IN bot' = [bot EXCEPT ![t] =
                    IF e # "none" THEN [called EXCEPT !.raised = e]
                    ELSE IF ~ok THEN [called EXCEPT !.raised = "ConnectionFailure"]
                    ELSE [called EXCEPT !.raised = "none", !.vector_part = store]]
  /\ BuildFrame

\* ChatBot.astream on the bot: a part that is None has no attribute.
bot_astream(t) ==
  /\ ~bot[t].ran
  /\ LET called == [bot[t] EXCEPT !.call = [op |-> "astream", keys |-> {},
                                            arg |-> "none"]]
     IN bot' = [bot EXCEPT ![t] =
                  IF bot[t].vector_part = "unset" \/ bot[t].message_part = "unset"
                    THEN [called EXCEPT !.raised = "AttributeError"]
                    ELSE [called EXCEPT !.raised = "none", !.ran = TRUE]]
  /\ BuildFrame

NextBuild ==
  \E t \in Turns :
    \/ \E configurable \in Configurables : build_message_part(t, configurable)
    \/ \E store \in StoreNames : build_vector_part(t, store)
    \/ bot_astream(t)

SpecBuild == Init /\ [][NextBuild]_vars

\* C34: build_message_part with an empty or missing session_id raises ValueError
\* and leaves message_part as it was, unset; build_vector_part with a store name
\* that is not in the factory table raises ValueError and leaves vector_part as
\* it was; a turn runs only on a bot whose message part has a session.
C34_BuildValidatesFirst ==
  [][\A t \in Turns :
       bot'[t] # bot[t] =>
         LET c == bot'[t].call
         IN /\ (c.op = "build_message_part"
                  /\ ("session_id" \notin c.keys \/ c.arg \in {"", "None"})) =>
                 /\ bot'[t].raised = "ValueError"
                 /\ bot'[t].message_part = bot[t].message_part
            /\ (c.op = "build_vector_part" /\ c.arg \notin V_FACTORIES) =>
                 /\ bot'[t].raised = "ValueError"
                 /\ bot'[t].vector_part = bot[t].vector_part
            /\ bot'[t].ran => bot'[t].message_part \in Sessions]_vars

(* -------------------------- create_conversation ------------------------ *)
\* The conversation ids ConversationRepo.create has not handed out yet.
FreshIds == Sessions \ { route[r].conversation_id : r \in Requests }

\* l holds b only after a.
Before(l, a, b) ==
  \A i \in 1..Len(l) : l[i] = b => \E j \in 1..(i - 1) : l[j] = a

Called(l, a) == \E i \in 1..Len(l) : l[i] = a

\* (variant) chat follows the creation at once, the upload is not awaited
after_create_chat_first(created_conversation_id, upload_file) ==
  IF created_conversation_id = "None" THEN "error" ELSE "chat"

\* create_conversation once ConversationRepo.create has returned: the error
\* when it returned None, the ingestion when a file was uploaded, chat otherwise.
after_create(created_conversation_id, upload_file) ==
  IF created_conversation_id = "None" THEN "error"
  ELSE IF upload_file THEN "ingest"
  ELSE "chat"

RouteFrame ==
  UNCHANGED << history, createdAt, appended, summaries, turnVars, overlapped,
               registry, bot, repo >>

\* create_conversation up to the return of ConversationRepo.create, for the
\* user u, with or without an uploaded file.
create(r, u, upload_file) ==
  /\ route[r].pc = "received"
  /\ \E created_conversation_id \in FreshIds \cup {"None"} :
       LET next == after_create(created_conversation_id, upload_file)
       IN route' = [route EXCEPT ![r] =
                      [pc |-> next, uuid |-> u, upload_file |-> upload_file,
                       conversation_id |-> created_conversation_id,
                       response |-> IF next = "error"
                                      THEN "Conversation not created" ELSE "none",
                       log |-> Append(route[r].log, "create")]]
  /\ UNCHANGED << index, found >>
  /\ RouteFrame

\* await ingest_file(uuid, upload_file, created_conversation_id): the file's
\* document enters the index under the two tags, or the ingestion raises.
ingest_file(r) ==
  /\ route[r].pc = "ingest"
  /\ Cardinality(index) < MaxDocs
  /\ \E ok \in BOOLEAN :
       IF ok
         THEN /\ index' = index \cup { Document(route[r].uuid, route[r].conversation_id,
                                                Cardinality(index) + 1) }
              /\ found' = NoSearch
              /\ route' = [route EXCEPT ![r].pc = "chat",
                                        ![r].log = Append(@, "ingest")]
         ELSE /\ route' = [route EXCEPT ![r].pc = "raised"]
              /\ UNCHANGED << index, found >>
  /\ RouteFrame

\* await chat(...): the first turn of the conversation is set up.
chat(r) ==
  /\ route[r].pc = "chat"
  /\ route' = [route EXCEPT ![r].pc = "turn", ![r].log = Append(@, "chat")]
  /\ UNCHANGED << index, found >>
  /\ RouteFrame

\* run_llm: the first turn evaluates its retrieval gate on the conversation's
\* store; the stream is the response.
first_gate(r) ==
  /\ route[r].pc = "turn"
  /\ found' = [kind |-> "gate", uuid |-> route[r].uuid,
               conversation_id |-> route[r].conversation_id,
               docs |-> asimilarity_search(index, route[r].uuid,
                                           route[r].conversation_id)]
  /\ route' = [route EXCEPT ![r].pc = "streaming", ![r].response = "stream",
                            ![r].log = Append(@, "gate")]
  /\ UNCHANGED index
  /\ RouteFrame

NextRoute ==
  \E r \in Requests :
    \/ \E u \in Tenants, upload_file \in BOOLEAN : create(r, u, upload_file)
    \/ ingest_file(r)
    \/ chat(r)
    \/ first_gate(r)

SpecRoute == Init /\ [][NextRoute]_vars

ConfigNames == { "m1", "m2" }
Revisions == { "v1", "v2" }
Configs == [name : ConfigNames, rev : Revisions]

ConfigLists == UNION { [1..n -> Configs] : n \in 0..MaxConfigs }

\* The documents the collection may hold for the options: none, one without
\* the attribute, one with a list under the attribute.
StoredDocuments ==
  { NoDocument, [exists |-> TRUE, has |-> FALSE, attribute |-> <<>>] }
    \cup { [exists |-> TRUE, has |-> TRUE, attribute |-> l] : l \in ConfigLists }

NamesOf(l) == { l[i].name : i \in 1..Len(l) }

\* key_in_dicts of sync
key_in_dicts(key, dicts) == \E i \in 1..Len(dicts) : dicts[i].name = key

\* d[config[identifier]] = config, on a dict kept as its values in insertion
\* order: a key that is there keeps its place and takes the new value.
Assign(d, config) ==
  IF key_in_dicts(config.name, d)
    THEN [i \in 1..Len(d) |-> IF d[i].name = config.name THEN config ELSE d[i]]
    ELSE Append(d, config)

\* {config[identifier]: config for config in target}
RECURSIVE DictOf(_, _)
DictOf(target, d) ==
  IF target = <<>> THEN d ELSE DictOf(Tail(target), Assign(d, Head(target)))

\* The loop of sync over the source: an entry whose identifier the target
\* does not hold is assigned.
RECURSIVE AddMissing(_, _, _)
AddMissing(source, target, d) ==
  IF source = <<>> THEN d
  ELSE AddMissing(Tail(source), target,
                  IF ~key_in_dicts(Head(source).name, target)
                    THEN Assign(d, Head(source)) ELSE d)

\* sync_attributes of sync: the target's entries, then the missing entries of
\* the source, without the entries whose identifier the source does not hold.
sync_attributes(source, target) ==
  SelectSeq(AddMissing(source, target, DictOf(target, <<>>)),
            LAMBDA config : config.name \in NamesOf(source))

\* update_one(options, {'$set': {attribute: assigns}}): the document that
\* matches the options is updated; without one nothing is written.
update_one(document, assigns) ==
  IF document.exists
    THEN [exists |-> TRUE, has |-> TRUE, attribute |-> assigns]
    ELSE document

\* BaseMongoRepository.sync(options, source, attribute, identifier)
sync(source) ==
  LET document == repo.document
      target == IF document.exists /\ document.has THEN document.attribute ELSE <<>>
  IN /\ repo' = [document |-> update_one(document, sync_attributes(source, target)),
                 source |-> source,
                 returned |-> sync_attributes(source, target),
                 target |-> target,
                 synced |-> TRUE]
     /\ UNCHANGED << history, createdAt, appended, summaries, turnVars, overlapped,
                     registry, index, found, bot, route >>

InitSync ==
  /\ Constructed
  /\ registry = TemplateKinds
  /\ \E document \in StoredDocuments : repo = [NoSync EXCEPT !.document = document]

NextSync == \E source \in ConfigLists : sync(source)

SpecSync == InitSync /\ [][NextSync]_vars

\* C36: after sync the list stored under the attribute is the list returned;
\* its identifiers are exactly the identifiers of the source; an entry whose
\* identifier the target held is an entry of the target; and a second sync
\* with the same source leaves the stored document as the first one left it.
C36_SyncMirrorsSource ==
  [][/\ repo'.synced =>
          /\ repo'.document.exists /\ repo'.document.has
          /\ repo'.document.attribute = repo'.returned
          /\ NamesOf(repo'.returned) = NamesOf(repo'.source)
          /\ \A i \in 1..Len(repo'.returned) :
               repo'.returned[i].name \in NamesOf(repo'.target) =>
                 \E j \in 1..Len(repo'.target) : repo'.target[j] = repo'.returned[i]
     /\ (repo.synced /\ repo'.synced /\ repo'.source = repo.source) =>
          repo'.document = repo.document]_vars

====
